---- MODULE Spec2Model ----
(***************************************************************************)
(* State-machine model of the RiskEngine of src/src/services/riskEngine.js *)
(* (thresholds, the run-scoped warning list, the seven detectors, the      *)
(* exposure check and the scoring) together with the caller's view of the  *)
(* objects the engine hands out or receives.                               *)
(*                                                                         *)
(* Numbers.  Prices, balances and times are integers.  A JavaScript number *)
(* that results from a division is the record [n |-> numerator,            *)
(* d |-> denominator] in lowest terms with d >= 0; d = 0 encodes the       *)
(* non-finite values: 1/0 is Infinity, -1/0 is -Infinity, 0/0 is NaN.      *)
(* Floating-point rounding is not modelled: arithmetic is exact.           *)
(***************************************************************************)
EXTENDS Integers, Sequences, FiniteSets, TLC

VARIABLES
    thresholds,   \* contents of the object this.thresholds refers to
    warnings,     \* contents of the array this.warnings refers to
    trades,       \* contents of the caller's trade array after the last call
    lastOp,       \* the most recent call on the engine, with its arguments
    ret,          \* what the most recent call returned
    input,        \* the data the caller holds, for the specifications that
                  \* draw one input and then apply an operation to it
    clock,        \* the evaluator's clock (what new Date() reads), in seconds
    tz,           \* the evaluator's local time zone, seconds east of UTC
    held,         \* a result of analyzeTradeHistory that the caller has kept
    hook,         \* the state of one useDerivConnection hook and its calls
    service       \* the state of one DerivAPIService and its calls

vars == <<thresholds, warnings, trades, lastOp, ret, input, clock, tz,
          held, hook, service>>

(***************************************************************************)
(* JavaScript numbers                                                      *)
(***************************************************************************)
Abs(x) == IF x < 0 THEN -x ELSE x

Sign(x) == IF x > 0 THEN 1 ELSE IF x < 0 THEN -1 ELSE 0

RECURSIVE Gcd(_, _)
Gcd(a, b) == IF b = 0 THEN a ELSE Gcd(b, a % b)

\* a / b as JavaScript computes it (IEEE-754 semantics for a zero divisor)
Div(a, b) ==
    IF b = 0 THEN [n |-> Sign(a), d |-> 0]
    ELSE LET g == Gcd(Abs(a), Abs(b))
         IN  [n |-> (Sign(b) * a) \div g, d |-> Abs(b) \div g]

FromInt(i) == [n |-> i, d |-> 1]

IsNaN(x) == x.n = 0 /\ x.d = 0

IsFinite(x) == x.d > 0

\* x * k for an integer k
Times(x, k) ==
    IF x.d = 0 THEN [n |-> Sign(x.n * k), d |-> 0]
    ELSE Div(x.n * k, x.d)

\* x > y and x >= y; every comparison with NaN is false
Gt(x, y) ==
    /\ ~IsNaN(x) /\ ~IsNaN(y)
    /\ IF x.d = 0 /\ y.d = 0 THEN x.n > y.n
       ELSE x.n * y.d > y.n * x.d

Geq(x, y) ==
    /\ ~IsNaN(x) /\ ~IsNaN(y)
    /\ IF x.d = 0 /\ y.d = 0 THEN x.n >= y.n
       ELSE x.n * y.d >= y.n * x.d

(***************************************************************************)
(* RiskLevel and RiskType                                                  *)
(***************************************************************************)
RiskLevel == [LOW |-> "low", MEDIUM |-> "medium", HIGH |-> "high",
              CRITICAL |-> "critical"]

RiskType == [OVERTRADING |-> "overtrading",
             HIGH_LOSS_STREAK |-> "high_loss_streak",
             LARGE_POSITION |-> "large_position",
             RAPID_TRADING |-> "rapid_trading",
             MARTINGALE_PATTERN |-> "martingale_pattern",
             BALANCE_DEPLETION |-> "balance_depletion",
             BOT_ACTIVITY |-> "bot_activity",
             UNUSUAL_HOURS |-> "unusual_hours"]

(***************************************************************************)
(* constructor                                                             *)
(***************************************************************************)
\* martingaleMultiplier 1.8 is the number 9/5
DefaultThresholds ==
    [maxDailyTrades |-> FromInt(50),
     maxLossStreak |-> FromInt(5),
     maxPositionPercent |-> FromInt(10),
     minTimeBetweenTrades |-> FromInt(10),
     martingaleMultiplier |-> Div(18, 10),
     balanceDropPercent |-> FromInt(20),
     botTradeInterval |-> FromInt(2)]

(***************************************************************************)
(* JavaScript Date and Array helpers                                       *)
(***************************************************************************)
\* new Date(seconds * 1000).toDateString(): the local calendar day
DateString(seconds, zone) == (seconds + zone) \div 86400

\* new Date(seconds * 1000).getHours(): the local hour of the day, 0..23
GetHours(seconds, zone) == ((seconds + zone) % 86400) \div 3600

\* one step of the sort: x goes after every element whose purchase_time is
\* not greater (Array.prototype.sort is stable)
RECURSIVE InsertByTime(_, _)
InsertByTime(s, x) ==
    IF s = <<>> THEN <<x>>
    ELSE IF s[Len(s)].purchase_time - x.purchase_time > 0
         THEN Append(InsertByTime(SubSeq(s, 1, Len(s) - 1), x), s[Len(s)])
         ELSE Append(s, x)

\* [...trades].sort((a, b) => a.purchase_time - b.purchase_time)
RECURSIVE SortedCopy(_)
SortedCopy(s) ==
    IF s = <<>> THEN <<>>
    ELSE InsertByTime(SortedCopy(SubSeq(s, 1, Len(s) - 1)), s[Len(s)])

Min(a, b) == IF a < b THEN a ELSE b

Max(a, b) == IF a > b THEN a ELSE b

IsLoss(t) == t.sell_price < t.buy_price

(***************************************************************************)
(* The seven detectors.  Each takes the array this.warnings refers to (w)  *)
(* and returns it as the detector leaves it: unchanged or with one push.   *)
(***************************************************************************)
\* the comparison with maxDailyTrades with >= in place of >
checkOvertradingGeq(w, th, tr, nowT, zone) ==
    LET today == DateString(nowT, zone)
        todayTrades == SelectSeq(tr, LAMBDA t : DateString(t.purchase_time, zone) = today)
    IN  IF Geq(FromInt(Len(todayTrades)), th.maxDailyTrades)
        THEN Append(w, [type |-> RiskType.OVERTRADING,
                        level |-> RiskLevel.HIGH,
                        value |-> FromInt(Len(todayTrades))])
        ELSE w

checkOvertrading(w, th, tr, nowT, zone) ==
    LET today == DateString(nowT, zone)
        todayTrades == SelectSeq(tr, LAMBDA t : DateString(t.purchase_time, zone) = today)
    IN  IF Gt(FromInt(Len(todayTrades)), th.maxDailyTrades)
        THEN Append(w, [type |-> RiskType.OVERTRADING,
                        level |-> RiskLevel.HIGH,
                        value |-> FromInt(Len(todayTrades))])
        ELSE w

\* the loop of checkLossStreak: <<currentStreak, maxStreak>> after the first
\* k trades, in the order given
RECURSIVE LossStreakLoop(_, _)
LossStreakLoop(tr, k) ==
    IF k = 0 THEN <<0, 0>>
    ELSE LET before == LossStreakLoop(tr, k - 1)
         IN  IF IsLoss(tr[k])
             THEN <<before[1] + 1, Max(before[2], before[1] + 1)>>
             ELSE <<0, before[2]>>

\* the scan run over the trades sorted by purchase_time instead of as given
checkLossStreakSorted(w, th, tr) ==
    LET maxStreak == LossStreakLoop(SortedCopy(tr), Len(tr))[2]
    IN  IF Geq(FromInt(maxStreak), th.maxLossStreak)
        THEN Append(w, [type |-> RiskType.HIGH_LOSS_STREAK,
                        level |-> IF maxStreak >= 8 THEN RiskLevel.CRITICAL
                                  ELSE RiskLevel.HIGH,
                        value |-> FromInt(maxStreak)])
        ELSE w

checkLossStreak(w, th, tr) ==
    LET maxStreak == LossStreakLoop(tr, Len(tr))[2]
    IN  IF Geq(FromInt(maxStreak), th.maxLossStreak)
        THEN Append(w, [type |-> RiskType.HIGH_LOSS_STREAK,
                        level |-> IF maxStreak >= 8 THEN RiskLevel.CRITICAL
                                  ELSE RiskLevel.HIGH,
                        value |-> FromInt(maxStreak)])
        ELSE w

\* the gap compared with <= in place of <
checkRapidTradingLeq(w, th, tr) ==
    LET sortedTrades == SortedCopy(tr)
        rapidCount == Cardinality({ i \in 2..Len(sortedTrades) :
            Geq(th.minTimeBetweenTrades,
                FromInt(sortedTrades[i].purchase_time - sortedTrades[i - 1].purchase_time)) })
    IN  IF rapidCount > 5
        THEN Append(w, [type |-> RiskType.RAPID_TRADING,
                        level |-> RiskLevel.MEDIUM,
                        value |-> FromInt(rapidCount)])
        ELSE w

checkRapidTrading(w, th, tr) ==
    LET sortedTrades == SortedCopy(tr)
        rapidCount == Cardinality({ i \in 2..Len(sortedTrades) :
            Gt(th.minTimeBetweenTrades,
               FromInt(sortedTrades[i].purchase_time - sortedTrades[i - 1].purchase_time)) })
    IN  IF rapidCount > 5
        THEN Append(w, [type |-> RiskType.RAPID_TRADING,
                        level |-> RiskLevel.MEDIUM,
                        value |-> FromInt(rapidCount)])
        ELSE w

\* the stake comparison with > in place of >=
checkMartingalePatternStrict(w, th, tr) ==
    LET sortedTrades == SortedCopy(tr)
        martingaleCount == Cardinality({ i \in 2..Len(sortedTrades) :
            /\ IsLoss(sortedTrades[i - 1])
            /\ Gt(FromInt(sortedTrades[i].buy_price),
                  Times(th.martingaleMultiplier, sortedTrades[i - 1].buy_price)) })
    IN  IF martingaleCount >= 3
        THEN Append(w, [type |-> RiskType.MARTINGALE_PATTERN,
                        level |-> RiskLevel.CRITICAL,
                        value |-> FromInt(martingaleCount)])
        ELSE w

checkMartingalePattern(w, th, tr) ==
    LET sortedTrades == SortedCopy(tr)
        martingaleCount == Cardinality({ i \in 2..Len(sortedTrades) :
            /\ IsLoss(sortedTrades[i - 1])
            /\ Geq(FromInt(sortedTrades[i].buy_price),
                   Times(th.martingaleMultiplier, sortedTrades[i - 1].buy_price)) })
    IN  IF martingaleCount >= 3
        THEN Append(w, [type |-> RiskType.MARTINGALE_PATTERN,
                        level |-> RiskLevel.CRITICAL,
                        value |-> FromInt(martingaleCount)])
        ELSE w

\* the threshold comparison with > in place of >=
checkBalanceDepletionStrict(w, th, bal) ==
    IF ~bal.hasInitial \/ bal.initialBalance = 0 THEN w
    ELSE LET dropPercent ==
                 Times(Div(bal.initialBalance - bal.currentBalance, bal.initialBalance), 100)
         IN  IF Gt(dropPercent, th.balanceDropPercent)
             THEN Append(w, [type |-> RiskType.BALANCE_DEPLETION,
                             level |-> IF Geq(dropPercent, FromInt(50))
                                       THEN RiskLevel.CRITICAL ELSE RiskLevel.HIGH,
                             value |-> dropPercent])
             ELSE w

\* the size of the change compared, whichever way the balance moved
checkBalanceDepletionEitherWay(w, th, bal) ==
    IF ~bal.hasInitial \/ bal.initialBalance = 0 THEN w
    ELSE LET dropPercent ==
                 Times(Div(Abs(bal.initialBalance - bal.currentBalance), bal.initialBalance), 100)
         IN  IF Geq(dropPercent, th.balanceDropPercent)
             THEN Append(w, [type |-> RiskType.BALANCE_DEPLETION,
                             level |-> IF Geq(dropPercent, FromInt(50))
                                       THEN RiskLevel.CRITICAL ELSE RiskLevel.HIGH,
                             value |-> dropPercent])
             ELSE w

\* bal.hasInitial is FALSE when initialBalance is undefined or null
checkBalanceDepletion(w, th, bal) ==
    IF ~bal.hasInitial \/ bal.initialBalance = 0 THEN w
    ELSE LET dropPercent ==
                 Times(Div(bal.initialBalance - bal.currentBalance, bal.initialBalance), 100)
         IN  IF Geq(dropPercent, th.balanceDropPercent)
             THEN Append(w, [type |-> RiskType.BALANCE_DEPLETION,
                             level |-> IF Geq(dropPercent, FromInt(50))
                                       THEN RiskLevel.CRITICAL ELSE RiskLevel.HIGH,
                             value |-> dropPercent])
             ELSE w

\* the loop run over every adjacent pair, without Math.min(..., 20)
checkBotActivityAll(w, th, tr) ==
    LET sortedTrades == SortedCopy(tr)
        suspiciousIntervals == Cardinality({ i \in 2..Len(sortedTrades) :
            Geq(th.botTradeInterval,
                FromInt(sortedTrades[i].purchase_time - sortedTrades[i - 1].purchase_time)) })
    IN  IF suspiciousIntervals >= 5
        THEN Append(w, [type |-> RiskType.BOT_ACTIVITY,
                        level |-> RiskLevel.MEDIUM,
                        value |-> FromInt(suspiciousIntervals),
                        isBotLikely |-> TRUE])
        ELSE w

checkBotActivity(w, th, tr) ==
    LET sortedTrades == SortedCopy(tr)
        suspiciousIntervals == Cardinality({ i \in 2..Min(Len(sortedTrades), 20) :
            Geq(th.botTradeInterval,
                FromInt(sortedTrades[i].purchase_time - sortedTrades[i - 1].purchase_time)) })
    IN  IF suspiciousIntervals >= 5
        THEN Append(w, [type |-> RiskType.BOT_ACTIVITY,
                        level |-> RiskLevel.MEDIUM,
                        value |-> FromInt(suspiciousIntervals),
                        isBotLikely |-> TRUE])
        ELSE w

\* the hours 0..6 counted: hour <= 6 in place of hour < 6
checkUnusualHoursThroughSix(w, tr, zone) ==
    LET unusualHourTrades == SelectSeq(tr, LAMBDA t :
            GetHours(t.purchase_time, zone) >= 0 /\ GetHours(t.purchase_time, zone) <= 6)
    IN  IF Len(unusualHourTrades) >= 10
        THEN Append(w, [type |-> RiskType.UNUSUAL_HOURS,
                        level |-> RiskLevel.LOW,
                        value |-> FromInt(Len(unusualHourTrades))])
        ELSE w

\* one warning pushed per trade of the unusual hours instead of one in all
checkUnusualHoursPerTrade(w, tr, zone) ==
    LET unusualHourTrades == SelectSeq(tr, LAMBDA t :
            GetHours(t.purchase_time, zone) >= 0 /\ GetHours(t.purchase_time, zone) < 6)
    IN  IF Len(unusualHourTrades) >= 10
        THEN w \o [i \in 1..Len(unusualHourTrades) |->
                      [type |-> RiskType.UNUSUAL_HOURS,
                       level |-> RiskLevel.LOW,
                       value |-> FromInt(Len(unusualHourTrades))]]
        ELSE w

checkUnusualHours(w, tr, zone) ==
    LET unusualHourTrades == SelectSeq(tr, LAMBDA t :
            GetHours(t.purchase_time, zone) >= 0 /\ GetHours(t.purchase_time, zone) < 6)
    IN  IF Len(unusualHourTrades) >= 10
        THEN Append(w, [type |-> RiskType.UNUSUAL_HOURS,
                        level |-> RiskLevel.LOW,
                        value |-> FromInt(Len(unusualHourTrades))])
        ELSE w

(***************************************************************************)
(* Scoring                                                                 *)
(***************************************************************************)
\* a slip in the points table: MEDIUM scored as 10
LevelPointsMediumTen(level) ==
    CASE level = RiskLevel.LOW -> 5
      [] level = RiskLevel.MEDIUM -> 10
      [] level = RiskLevel.HIGH -> 30
      [] level = RiskLevel.CRITICAL -> 50
      [] OTHER -> 0

LevelPoints(level) ==
    CASE level = RiskLevel.LOW -> 5
      [] level = RiskLevel.MEDIUM -> 15
      [] level = RiskLevel.HIGH -> 30
      [] level = RiskLevel.CRITICAL -> 50
      [] OTHER -> 0

RECURSIVE SumPoints(_)
SumPoints(w) ==
    IF w = <<>> THEN 0
    ELSE SumPoints(SubSeq(w, 1, Len(w) - 1)) + LevelPoints(w[Len(w)].level)

\* the score without the clamp of Math.min(score, 100)
calculateOverallRiskScoreUnclamped(w) == SumPoints(w)

calculateOverallRiskScore(w) == Min(SumPoints(w), 100)

\* the cutoffs with > in place of >=
getRiskLevelStrict(score) ==
    IF score > 70 THEN RiskLevel.CRITICAL
    ELSE IF score > 40 THEN RiskLevel.HIGH
    ELSE IF score > 20 THEN RiskLevel.MEDIUM
    ELSE RiskLevel.LOW

getRiskLevel(score) ==
    IF score >= 70 THEN RiskLevel.CRITICAL
    ELSE IF score >= 40 THEN RiskLevel.HIGH
    ELSE IF score >= 20 THEN RiskLevel.MEDIUM
    ELSE RiskLevel.LOW

(***************************************************************************)
(* The three public operations as functions of the engine's state          *)
(***************************************************************************)
\* the spread with its operands swapped: { ...newThresholds, ...this.thresholds }
SpreadOldWins(old, new) ==
    [k \in DOMAIN old \cup DOMAIN new |-> IF k \in DOMAIN old THEN old[k] ELSE new[k]]

\* { ...this.thresholds, ...newThresholds }
Spread(old, new) ==
    [k \in DOMAIN old \cup DOMAIN new |-> IF k \in DOMAIN new THEN new[k] ELSE old[k]]

\* setThresholds: the contents of the object this.thresholds refers to
\* afterwards, and the contents the object it referred to before then has
\* (the object literal is a new object: the one replaced is not written)
setThresholdsCall(th, newThresholds) ==
    [thresholds |-> Spread(th, newThresholds), replaced |-> th]

\* the list emptied in place (this.warnings.length = 0): the array of the
\* run before is the one the detectors push onto
ArrayBeforeCleared(w, after) == [contents |-> after, shared |-> TRUE]

\* this.warnings = [] assigns a new array: the array this.warnings referred
\* to before keeps its contents w and is no longer the engine's
ArrayBefore(w, after) == [contents |-> w, shared |-> FALSE]

\* the run-scoped list not reset: the detectors push onto the old array
NewWarningsKept(w) == w

\* this.warnings = []
NewWarnings(w) == <<>>

\* the sort applied to the array passed in, without the copy
AfterSortInPlace(tr) == SortedCopy(tr)

\* what sorting leaves in the array tr that was passed in: [...trades]
\* copies first, so the array passed in keeps its order
AfterSort(tr) == tr

\* the guard without the length test
NoTradesAbsentOnly(args) == ~args.given

\* !trades || trades.length === 0
NoTrades(args) == ~args.given \/ Len(args.trades) = 0

\* the detectors called in another order: Bot Activity before Overtrading
analyzeTradeHistoryCallBotFirst(w, th, args, nowT, zone) ==
    LET w0 == NewWarnings(w)
    IN  IF NoTrades(args)
        THEN [warnings |-> w0,
              ret |-> [warnings |-> <<>>, riskScore |-> 0],
              trades |-> args.trades,
              before |-> ArrayBefore(w, w0),
              aliased |-> FALSE]
        ELSE LET t0 == args.trades
                 w1 == checkBotActivity(w0, th, t0)
                 t1 == AfterSort(t0)
                 w2 == checkOvertrading(w1, th, t1, nowT, zone)
                 w3 == checkLossStreak(w2, th, t1)
                 w4 == checkRapidTrading(w3, th, t1)
                 t4 == AfterSort(t1)
                 w5 == checkMartingalePattern(w4, th, t4)
                 t5 == AfterSort(t4)
                 w6 == checkBalanceDepletion(w5, th, args)
                 w7 == checkUnusualHours(w6, t5, zone)
                 riskScore == calculateOverallRiskScore(w7)
             IN  [warnings |-> w7,
                  ret |-> [warnings |-> w7,
                           riskScore |-> riskScore,
                           riskLevel |-> getRiskLevel(riskScore)],
                  trades |-> t5,
                  before |-> ArrayBefore(w, w7),
                  aliased |-> TRUE]

\* args: [given, trades, currentBalance, initialBalance, hasInitial];
\* given is FALSE when the trades argument is undefined or null.
\* Returns the array this.warnings refers to afterwards, the result object,
\* the caller's trade array afterwards, what has become of the array
\* this.warnings referred to on entry (before), and whether the warnings of
\* the result are the array this.warnings refers to (aliased).
analyzeTradeHistoryCall(w, th, args, nowT, zone) ==
    LET w0 == NewWarnings(w)
    IN  IF NoTrades(args)
        THEN [warnings |-> w0,
              ret |-> [warnings |-> <<>>, riskScore |-> 0],
              trades |-> args.trades,
              before |-> ArrayBefore(w, w0),
              aliased |-> FALSE]
        ELSE LET t0 == args.trades
                 w1 == checkOvertrading(w0, th, t0, nowT, zone)
                 w2 == checkLossStreak(w1, th, t0)
                 w3 == checkRapidTrading(w2, th, t0)
                 t3 == AfterSort(t0)
                 w4 == checkMartingalePattern(w3, th, t3)
                 t4 == AfterSort(t3)
                 w5 == checkBalanceDepletion(w4, th, args)
                 w6 == checkBotActivity(w5, th, t4)
                 t6 == AfterSort(t4)
                 w7 == checkUnusualHours(w6, t6, zone)
                 riskScore == calculateOverallRiskScore(w7)
             IN  [warnings |-> w7,
                  ret |-> [warnings |-> w7,
                           riskScore |-> riskScore,
                           riskLevel |-> getRiskLevel(riskScore)],
                  trades |-> t6,
                  before |-> ArrayBefore(w, w7),
                  aliased |-> TRUE]

\* the loop of analyzeOpenPositions: positionWarnings after the first k
\* positions
RECURSIVE PositionLoop(_, _, _, _)
PositionLoop(th, positions, balance, k) ==
    IF k = 0 THEN <<>>
    ELSE LET before == PositionLoop(th, positions, balance, k - 1)
             position == positions[k]
             positionPercent == Times(Div(position.buy_price, balance), 100)
         IN  IF Gt(positionPercent, th.maxPositionPercent)
             THEN Append(before,
                         [type |-> RiskType.LARGE_POSITION,
                          level |-> IF Gt(positionPercent, FromInt(25))
                                    THEN RiskLevel.CRITICAL ELSE RiskLevel.HIGH,
                          value |-> positionPercent,
                          contractId |-> position.contract_id])
             ELSE before

\* the loop with >= in place of > in the comparison with maxPositionPercent
RECURSIVE PositionLoopGeq(_, _, _, _)
PositionLoopGeq(th, positions, balance, k) ==
    IF k = 0 THEN <<>>
    ELSE LET before == PositionLoopGeq(th, positions, balance, k - 1)
             position == positions[k]
             positionPercent == Times(Div(position.buy_price, balance), 100)
         IN  IF Geq(positionPercent, th.maxPositionPercent)
             THEN Append(before,
                         [type |-> RiskType.LARGE_POSITION,
                          level |-> IF Gt(positionPercent, FromInt(25))
                                    THEN RiskLevel.CRITICAL ELSE RiskLevel.HIGH,
                          value |-> positionPercent,
                          contractId |-> position.contract_id])
             ELSE before

analyzeOpenPositionsCallGeq(w, th, positions, balance) ==
    [warnings |-> w,
     ret |-> PositionLoopGeq(th, positions, balance, Len(positions))]

\* the exposure warnings pushed onto this.warnings instead of a local array
analyzeOpenPositionsCallShared(w, th, positions, balance) ==
    [warnings |-> w \o PositionLoop(th, positions, balance, Len(positions)),
     ret |-> w \o PositionLoop(th, positions, balance, Len(positions))]

\* analyzeOpenPositions: the array this.warnings refers to afterwards and
\* the returned array
analyzeOpenPositionsCall(w, th, positions, balance) ==
    [warnings |-> w,
     ret |-> PositionLoop(th, positions, balance, Len(positions))]

(***************************************************************************)
(* A result the caller keeps.  held.result is what the kept result object  *)
(* shows now, held.original what it showed when it was returned;           *)
(* held.shared says that its warnings are still the array this.warnings    *)
(* refers to (return { warnings: this.warnings, ... })                     *)
(***************************************************************************)
NoHeld == [has |-> FALSE]

\* what the kept result shows once the array it may share with the engine
\* has the contents a.contents
HeldSees(h, a) ==
    IF h.has /\ h.shared
    THEN [h EXCEPT !.result.warnings = a.contents, !.shared = a.shared]
    ELSE h

\* useDerivConnection: the six useState values, and the number of calls of
\* connect awaiting derivAPI.connect (connecting), of authorize awaiting
\* derivAPI.authorize (authorizing) and of authorize awaiting
\* derivAPI.getBalance (fetching)
InitHook ==
    hook = [isConnected |-> FALSE, isAuthorized |-> FALSE, isLoading |-> FALSE,
            error |-> "null", accountInfo |-> "null", balance |-> "null",
            connecting |-> 0, authorizing |-> 0, fetching |-> 0]

\* DerivAPIService after its constructor.  api is 0 for null, otherwise the
\* number of the DerivAPI object; subscriptions maps a subscription id to the
\* subscribeToBalance call whose subscription object it holds.  The rest is
\* the calls in flight and what the calls have returned: apis counts the
\* DerivAPI objects created, pinging holds the objects whose connect call
\* awaits its ping, authorizing counts the authorize calls awaiting their
\* response, calls lists the subscribeToBalance calls, now is Date.now(),
\* connectResult is the message of the connect call that returned last,
\* previous the one before it, disconnected whether disconnect ran since.
NoSubscriptions == [i \in {} |-> 0]

InitService ==
    service = [api |-> 0, accountInfo |-> "null", subscriptions |-> NoSubscriptions,
               apis |-> 0, pinging |-> {}, authorizing |-> 0, calls |-> << >>,
               now |-> 0, connectResult |-> "none", previous |-> "none",
               disconnected |-> FALSE, authorizeResult |-> "none"]

\* the rest of the application when the engine is constructed
InitSession ==
    /\ held = NoHeld
    /\ InitHook
    /\ InitService

(***************************************************************************)
(* Actions                                                                 *)
(***************************************************************************)
NoArgs == [given |-> FALSE, trades |-> <<>>, currentBalance |-> 0,
           initialBalance |-> 0, hasInitial |-> FALSE]

InitEngine ==
    /\ thresholds = DefaultThresholds
    /\ warnings = <<>>
    /\ lastOp = [op |-> "constructor", args |-> <<>>]
    /\ ret = <<>>

\* lastOp also records what a caller could observe of the objects the call
\* replaced: the old thresholds object after setThresholds (replaced), and
\* the length this.warnings had when analyzeTradeHistory was entered (carried)
setThresholds(newThresholds) ==
    LET r == setThresholdsCall(thresholds, newThresholds)
    IN  /\ thresholds' = r.thresholds
        /\ lastOp' = [op |-> "setThresholds", args |-> newThresholds,
                      replaced |-> r.replaced]
        /\ ret' = <<>>
        /\ UNCHANGED <<warnings, trades, input, clock, tz, held, hook, service>>

\* a run that also puts the configuration back to the defaults
analyzeTradeHistoryResetting(args) ==
    LET r == analyzeTradeHistoryCall(warnings, thresholds, args, clock, tz)
    IN  /\ warnings' = r.warnings
        /\ ret' = r.ret
        /\ trades' = r.trades
        /\ lastOp' = [op |-> "analyzeTradeHistory", args |-> args, now |-> clock,
                      carried |-> Len(warnings), aliased |-> r.aliased]
        /\ thresholds' = DefaultThresholds
        /\ held' = HeldSees(held, r.before)
        /\ UNCHANGED <<input, clock, tz, hook, service>>

analyzeTradeHistory(args) ==
    LET r == analyzeTradeHistoryCall(warnings, thresholds, args, clock, tz)
    IN  /\ warnings' = r.warnings
        /\ ret' = r.ret
        /\ trades' = r.trades
        /\ lastOp' = [op |-> "analyzeTradeHistory", args |-> args, now |-> clock,
                      carried |-> Len(warnings), aliased |-> r.aliased]
        /\ held' = HeldSees(held, r.before)
        /\ UNCHANGED <<thresholds, input, clock, tz, hook, service>>

analyzeOpenPositions(positions, balance) ==
    LET r == analyzeOpenPositionsCall(warnings, thresholds, positions, balance)
    IN  /\ warnings' = r.warnings
        /\ ret' = r.ret
        /\ lastOp' = [op |-> "analyzeOpenPositions",
                      args |-> [positions |-> positions, balance |-> balance]]
        /\ held' = HeldSees(held, [contents |-> r.warnings, shared |-> TRUE])
        /\ UNCHANGED <<thresholds, trades, input, clock, tz, hook, service>>

\* the caller keeps the result the last analyzeTradeHistory returned
Hold ==
    /\ lastOp.op = "analyzeTradeHistory"
    /\ ~held.has
    /\ held' = [has |-> TRUE, original |-> ret, result |-> ret,
                shared |-> lastOp.aliased]
    /\ UNCHANGED <<thresholds, warnings, trades, lastOp, ret, input, clock, tz,
                   hook, service>>

(***************************************************************************)
(* Inputs of the engine-level specification                                *)
(***************************************************************************)
Trade(time, buy, sell) ==
    [purchase_time |-> time, buy_price |-> buy, sell_price |-> sell]

\* n trades, gap seconds apart, all with the same stake and payout
Series(n, start, gap, buy, sell) ==
    [i \in 1..n |-> Trade(start + (i - 1) * gap, buy, sell)]

Reverse(s) == [i \in 1..Len(s) |-> s[Len(s) + 1 - i]]

\* 00:00 UTC of the evaluation day, and 12:00
Midnight == 20000 * 86400

Noon == Midnight + 12 * 3600

\* the stakes of section 8 of the specification: a raised stake after each loss
MartingaleExample ==
    << Trade(Noon, 10, 8), Trade(Noon + 600, 20, 25),
       Trade(Noon + 1200, 10, 8), Trade(Noon + 1800, 18, 20),
       Trade(Noon + 2400, 10, 8), Trade(Noon + 3000, 20, 25) >>

\* doubled stakes, every trade lost, one second apart, given latest first
DoublingLosses ==
    Reverse([i \in 1..8 |-> Trade(Noon + i, 2 ^ i, 0)])

NightTrades == Series(12, Midnight + 3600, 2, 10, 12)

Args(tr, cur, init) ==
    [given |-> TRUE, trades |-> tr, currentBalance |-> cur,
     initialBalance |-> init, hasInitial |-> TRUE]

\* the same with initialBalance undefined
ArgsNoInitial(tr, cur) ==
    [given |-> TRUE, trades |-> tr, currentBalance |-> cur,
     initialBalance |-> 0, hasInitial |-> FALSE]

AnalysisArgs ==
    { Args(<<>>, 400, 1000),
      [NoArgs EXCEPT !.currentBalance = 400, !.initialBalance = 1000,
                     !.hasInitial = TRUE],
      Args(<< Trade(Noon, 10, 12) >>, 1000, 1000),
      Args(<< Trade(Noon, 10, 12) >>, 750, 1000),
      Args(<< Trade(Noon, 10, 12) >>, 400, 1000),
      Args(Series(5, Noon, 600, 10, 8), 750, 1000),
      Args(Series(8, Noon, 1, 10, 8), 1000, 0),
      Args(Series(8, Noon, 1, 10, 8), 400, 1000),
      ArgsNoInitial(MartingaleExample, 400),
      Args(MartingaleExample, 400, 1000),
      Args(DoublingLosses, 400, 1000),
      Args(NightTrades, 1000, 1000),
      Args(NightTrades, 400, 1000),
      Args(Reverse(Series(7, Noon - 86400, 1, 10, 10)), 1200, 1000) }

Position(id, buy) == [contract_id |-> id, buy_price |-> buy]

PositionArgs ==
    { [positions |-> <<>>, balance |-> 1000],
      [positions |-> << Position(1, 100) >>, balance |-> 1000],
      [positions |-> << Position(1, 150), Position(2, 100), Position(3, 300) >>,
       balance |-> 1000],
      [positions |-> << Position(7, 251), Position(8, 250) >>, balance |-> 1000],
      [positions |-> << Position(4, 150), Position(5, 0) >>, balance |-> 0],
      [positions |-> << Position(6, 150) >>, balance |-> -500] }

ThresholdUpdates ==
    { [maxDailyTrades |-> FromInt(5)],
      [minTimeBetweenTrades |-> FromInt(1)],
      [maxPositionPercent |-> FromInt(25), maxLossStreak |-> FromInt(9)] }

\* the evaluator's clock moves on by a day, at most MaxClockDays times
MaxClockDays == 1

AdvanceClock ==
    /\ clock < Noon + MaxClockDays * 86400
    /\ clock' = clock + 86400
    /\ UNCHANGED <<thresholds, warnings, trades, lastOp, ret, input, tz,
                   held, hook, service>>

NoInput == [trades |-> <<>>, positions |-> <<>>, balance |-> 0]

Init ==
    /\ InitEngine
    /\ InitSession
    /\ trades = <<>>
    /\ input = NoInput
    /\ clock = Noon
    /\ tz = 0

Next ==
    \/ \E p \in ThresholdUpdates : setThresholds(p)
    \/ \E a \in AnalysisArgs : analyzeTradeHistory(a)
    \/ AdvanceClock
    \/ \E a \in PositionArgs : analyzeOpenPositions(a.positions, a.balance)

Spec == Init /\ [][Next]_vars

(***************************************************************************)
(* setThresholds alone: every override of at most MaxPartialKeys keys      *)
(***************************************************************************)
MaxPartialKeys == 2

ThresholdKeys == DOMAIN DefaultThresholds

OverrideValues ==
    [maxDailyTrades |-> FromInt(5),
     maxLossStreak |-> FromInt(3),
     maxPositionPercent |-> Div(25, 2),
     minTimeBetweenTrades |-> FromInt(0),
     martingaleMultiplier |-> FromInt(2),
     balanceDropPercent |-> FromInt(-10),
     botTradeInterval |-> FromInt(1)]

ThresholdPartials ==
    { [k \in S |-> OverrideValues[k]] :
          S \in { T \in SUBSET ThresholdKeys : Cardinality(T) <= MaxPartialKeys } }
    \cup { DefaultThresholds }

NextThresholds == \E p \in ThresholdPartials : setThresholds(p)

SpecThresholds == Init /\ [][NextThresholds]_vars

(***************************************************************************)
(* analyzeOpenPositions on one drawn input: every list of at most          *)
(* MaxPositions positions with stakes of Stakes, contract_id = index       *)
(***************************************************************************)
MaxPositions == 3

Stakes == {0, 100, 150, 250, 300}

ExposureBalances == {1000, 400, 0, -500}

PositionLists ==
    UNION { { [i \in 1..n |-> Position(i, f[i])] : f \in [1..n -> Stakes] } :
            n \in 0..MaxPositions }

ExposureThresholds ==
    { [maxPositionPercent |-> FromInt(30)],
      [maxPositionPercent |-> FromInt(-60)] }

InitPositions ==
    /\ InitEngine
    /\ InitSession
    /\ trades = <<>>
    /\ input \in { [trades |-> <<>>, positions |-> ps, balance |-> b] :
                       ps \in PositionLists, b \in ExposureBalances }
    /\ clock = Noon
    /\ tz = 0

NextPositions ==
    \/ \E p \in ExposureThresholds : lastOp.op = "constructor" /\ setThresholds(p)
    \/ analyzeOpenPositions(input.positions, input.balance)

SpecPositions == InitPositions /\ [][NextPositions]_vars

(***************************************************************************)
(* analyzeTradeHistory on one drawn trade list made of two runs of losses: *)
(* a losses, a separator (none, a win or a tie), b losses, with            *)
(* a, b <= MaxRun, given in time order or in an order that is not          *)
(***************************************************************************)
MaxRun == 9

Outcome(kind, time) ==
    IF kind = "loss" THEN Trade(time, 10, 8)
    ELSE IF kind = "tie" THEN Trade(time, 10, 10)
    ELSE Trade(time, 10, 12)

\* the purchase time of the i-th trade given: ten minutes apart, in the
\* order given ("asc") or scattered ("mixed", a permutation of the slots)
SlotTime(order, i) ==
    IF order = "asc" THEN Noon + 600 * i
    ELSE Noon + 600 * ((i * 7) % 23)

TwoRuns(a, sep, b, order) ==
    LET kinds == [i \in 1..a |-> "loss"]
                 \o (IF sep = "none" THEN <<>> ELSE <<sep>>)
                 \o [i \in 1..b |-> "loss"]
    IN  [i \in 1..Len(kinds) |-> Outcome(kinds[i], SlotTime(order, i))]

LossStreakLists ==
    { TwoRuns(a, sep, b, order) :
          a \in 0..MaxRun, sep \in {"none", "win", "tie"}, b \in 0..MaxRun,
          order \in {"asc", "mixed"} }

LossStreakThresholds ==
    { [maxLossStreak |-> FromInt(3)], [maxLossStreak |-> FromInt(9)] }

InitLossStreak ==
    /\ InitEngine
    /\ InitSession
    /\ trades = <<>>
    /\ input \in { [trades |-> l, positions |-> <<>>, balance |-> 0] :
                       l \in LossStreakLists }
    /\ clock = Noon
    /\ tz = 0

NextLossStreak ==
    \/ \E p \in LossStreakThresholds : lastOp.op = "constructor" /\ setThresholds(p)
    \/ analyzeTradeHistory(Args(input.trades, 1000, 1000))

SpecLossStreak == InitLossStreak /\ [][NextLossStreak]_vars

(***************************************************************************)
(* Properties of the engine-level specification                            *)
(***************************************************************************)
IsAnalysis == lastOp.op = "analyzeTradeHistory"

IsNonEmptyAnalysis == IsAnalysis /\ lastOp.args.given /\ Len(lastOp.args.trades) > 0

IsExposure == lastOp.op = "analyzeOpenPositions"

\* C1: every result returned by analyzeTradeHistory, after any sequence of
\* setThresholds, analyzeTradeHistory and analyzeOpenPositions calls, has a
\* riskScore between 0 and 100 inclusive.
C1_ScoreInRange == IsAnalysis => ret.riskScore \in 0..100

\* a run whose warnings sum to more than 100 points
C1_Witness ==
    /\ IsNonEmptyAnalysis
    /\ SumPoints(ret.warnings) > 100
    /\ ret.riskScore = 100

\* C2: for a non-empty trade list riskLevel is the step function of riskScore
\* with cutoffs 70, 40 and 20, which is monotonic in the score.
C2_LevelByCutoffs ==
    IsNonEmptyAnalysis =>
        /\ "riskLevel" \in DOMAIN ret
        /\ (ret.riskScore >= 70) = (ret.riskLevel = "critical")
        /\ (ret.riskScore >= 40 /\ ret.riskScore < 70) = (ret.riskLevel = "high")
        /\ (ret.riskScore >= 20 /\ ret.riskScore < 40) = (ret.riskLevel = "medium")
        /\ (ret.riskScore < 20) = (ret.riskLevel = "low")

\* a score exactly on the CRITICAL cutoff
C2_Witness ==
    /\ IsNonEmptyAnalysis
    /\ ret.riskScore = 70
    /\ ret.riskLevel = "critical"

\* C3: with trades empty or absent the result is exactly
\* { warnings: [], riskScore: 0 }, without riskLevel, whatever the balances
\* and whatever was called before.
C3_EmptyShortCircuit ==
    (IsAnalysis /\ (~lastOp.args.given \/ lastOp.args.trades = <<>>)) =>
        /\ DOMAIN ret = {"warnings", "riskScore"}
        /\ ret.warnings = <<>>
        /\ ret.riskScore = 0

\* an empty list with a 60 % balance drop, on an engine whose thresholds were
\* overridden and whose previous run had left warnings
C3_Witness ==
    /\ IsAnalysis
    /\ lastOp.args.given /\ lastOp.args.trades = <<>>
    /\ lastOp.args.hasInitial
    /\ lastOp.args.initialBalance = 1000 /\ lastOp.args.currentBalance = 400
    /\ lastOp.carried > 0
    /\ thresholds # DefaultThresholds
    /\ ret = [warnings |-> <<>>, riskScore |-> 0]

\* C4 as stated: two successive analyzeTradeHistory calls with identical
\* arguments and unchanged thresholds return identical results.
C4_SameArgumentsSameResult ==
    [][ ( /\ lastOp.op = "analyzeTradeHistory"
          /\ lastOp'.op = "analyzeTradeHistory"
          /\ lastOp'.args = lastOp.args
          /\ thresholds' = thresholds ) => ret' = ret
      ]_vars

\* C4 (amended): the result of analyzeTradeHistory is the one a fresh engine
\* (run-scoped list empty, as the constructor leaves it) with the same
\* thresholds returns for the same arguments at the same evaluation time:
\* nothing of an earlier run is carried over.
C4_NoCarryOver ==
    IsAnalysis =>
        ret = analyzeTradeHistoryCall(<<>>, thresholds, lastOp.args, lastOp.now, tz).ret

\* a run entered with warnings of an earlier run in this.warnings that
\* returns fewer warnings than were there
C4_Witness ==
    /\ IsNonEmptyAnalysis
    /\ lastOp.carried > 0
    /\ Len(ret.warnings) < lastOp.carried

C5_Points(level) ==
    IF level = "low" THEN 5
    ELSE IF level = "medium" THEN 15
    ELSE IF level = "high" THEN 30
    ELSE IF level = "critical" THEN 50
    ELSE 0

RECURSIVE C5_Sum(_, _)
C5_Sum(w, k) == IF k = 0 THEN 0 ELSE C5_Sum(w, k - 1) + C5_Points(w[k].level)

\* C5: for a non-empty run riskScore = min(100, sum of the points of the
\* returned warnings), LOW 5, MEDIUM 15, HIGH 30, CRITICAL 50, and no
\* warning of analyzeOpenPositions is among those counted.
C5_ScoreIsPointSum ==
    IsNonEmptyAnalysis =>
        /\ ret.riskScore = Min(100, C5_Sum(ret.warnings, Len(ret.warnings)))
        /\ \A i \in DOMAIN ret.warnings :
               /\ ret.warnings[i].type # "large_position"
               /\ ret.warnings[i].level \in {"low", "medium", "high", "critical"}

\* a run that returns warnings of all four levels
C5_Witness ==
    /\ IsNonEmptyAnalysis
    /\ \A l \in {"low", "medium", "high", "critical"} :
           \E i \in DOMAIN ret.warnings : ret.warnings[i].level = l

\* C9: analyzeOpenPositions leaves this.warnings and this.thresholds as they
\* were (so a result that shares the run-scoped array keeps its warnings,
\* riskScore and riskLevel), and no result of analyzeTradeHistory holds a
\* LARGE_POSITION warning.
C9_ExposureIsSeparate ==
    [][ /\ (lastOp'.op = "analyzeOpenPositions" =>
                warnings' = warnings /\ thresholds' = thresholds)
        /\ (lastOp'.op = "analyzeTradeHistory" =>
                \A i \in DOMAIN ret'.warnings : ret'.warnings[i].type # "large_position")
      ]_vars

\* exposure warnings returned while the run-scoped list holds the warnings
\* of an earlier analysis
C9_Witness ==
    /\ IsExposure
    /\ Len(ret) > 0
    /\ Len(warnings) > 0
    /\ \A i \in DOMAIN warnings : warnings[i].type # "large_position"

(***************************************************************************)
(* Properties of setThresholds (SpecThresholds)                            *)
(***************************************************************************)
\* C6: after setThresholds(partial) every key of partial has the given
\* value, every other key keeps its value, and the object that held the
\* configuration before is left as it was (a new object replaces it).
C6_OverrideMerges ==
    [][ lastOp'.op = "setThresholds" =>
            LET partial == lastOp'.args
            IN  /\ DOMAIN thresholds' = DOMAIN thresholds \cup DOMAIN partial
                /\ \A k \in DOMAIN partial : thresholds'[k] = partial[k]
                /\ \A k \in DOMAIN thresholds \ DOMAIN partial :
                       thresholds'[k] = thresholds[k]
                /\ lastOp'.replaced = thresholds
      ]_vars

\* an override of some but not all keys, on a configuration that an earlier
\* override had already changed in a key this one does not name
C6_Witness ==
    /\ lastOp.op = "setThresholds"
    /\ DOMAIN lastOp.args # {}
    /\ DOMAIN lastOp.args # ThresholdKeys
    /\ \E k \in ThresholdKeys \ DOMAIN lastOp.args :
           thresholds[k] # DefaultThresholds[k]
    /\ \A k \in DOMAIN lastOp.args : thresholds[k] = lastOp.args[k]
    /\ lastOp.replaced # thresholds

(***************************************************************************)
(* Properties of analyzeOpenPositions (SpecPositions)                      *)
(***************************************************************************)
\* the positions over the limit, by integer cross-multiplication
\* (balance > 0): buy_price / balance * 100 > limit
C7_Over(position, balance, limit) ==
    position.buy_price * 100 * limit.d > limit.n * balance

\* C7: with balance > 0 the returned list holds, in position order, exactly
\* one LARGE_POSITION warning per position whose percent of the balance is
\* strictly greater than maxPositionPercent; its level is CRITICAL when the
\* percent is strictly greater than 25 and HIGH otherwise; it carries the
\* contract_id and the percent as value.
C7_ExposureWarnings ==
    (IsExposure /\ lastOp.args.balance > 0) =>
        LET ps == lastOp.args.positions
            b == lastOp.args.balance
            big == { i \in 1..Len(ps) : C7_Over(ps[i], b, thresholds.maxPositionPercent) }
        IN  /\ Len(ret) = Cardinality(big)
            /\ \A i \in big :
                   LET j == Cardinality({ m \in big : m <= i })
                   IN  /\ ret[j].type = "large_position"
                       /\ ret[j].contractId = ps[i].contract_id
                       /\ ret[j].level = IF ps[i].buy_price * 100 > 25 * b
                                         THEN "critical" ELSE "high"
                       /\ ret[j].value.d > 0
                       /\ ret[j].value.n * b = ps[i].buy_price * 100 * ret[j].value.d

\* balance 1000, stakes 150, 100, 300: HIGH for the first, nothing for the
\* second, CRITICAL for the third
C7_Witness ==
    /\ IsExposure
    /\ thresholds = DefaultThresholds
    /\ lastOp.args.balance = 1000
    /\ lastOp.args.positions = << Position(1, 150), Position(2, 100), Position(3, 300) >>
    /\ ret = << [type |-> "large_position", level |-> "high",
                 value |-> [n |-> 15, d |-> 1], contractId |-> 1],
                [type |-> "large_position", level |-> "critical",
                 value |-> [n |-> 30, d |-> 1], contractId |-> 3] >>

\* C8: with balance <= 0 analyzeOpenPositions returns no warning (and so
\* none whose value is Infinity or NaN).
C8_NonPositiveBalanceSkipped ==
    (IsExposure /\ lastOp.args.balance <= 0) =>
        /\ \A i \in DOMAIN ret : IsFinite(ret[i].value)
        /\ ret = <<>>

(***************************************************************************)
(* Properties of the Loss Streak detector (SpecLossStreak)                 *)
(***************************************************************************)
\* the longest run of consecutive trades with sell_price < buy_price, in the
\* order given
C10_Longest(ts) ==
    LET runs == { r \in (1..Len(ts)) \X (1..Len(ts)) :
                      /\ r[1] <= r[2]
                      /\ \A k \in r[1]..r[2] : ts[k].sell_price < ts[k].buy_price }
    IN  IF runs = {} THEN 0
        ELSE LET best == CHOOSE r \in runs :
                             \A q \in runs : q[2] - q[1] <= r[2] - r[1]
             IN  best[2] - best[1] + 1

\* C10: the result holds exactly one HIGH_LOSS_STREAK warning iff the longest
\* run of consecutive losses in the order given is >= maxLossStreak (a tie
\* is not a loss); its value is that run and its level is CRITICAL for a run
\* >= 8 and HIGH otherwise.
C10_LossStreak ==
    IsNonEmptyAnalysis =>
        LET longest == C10_Longest(lastOp.args.trades)
            limit == thresholds.maxLossStreak
            hits == { i \in DOMAIN ret.warnings :
                          ret.warnings[i].type = "high_loss_streak" }
        IN  IF longest * limit.d >= limit.n
            THEN \E i \in hits :
                     /\ hits = {i}
                     /\ ret.warnings[i].value = [n |-> longest, d |-> 1]
                     /\ ret.warnings[i].level =
                            IF longest >= 8 THEN "critical" ELSE "high"
            ELSE hits = {}

\* five losses, a tie, eight losses, given in an order that is not the time
\* order, under the default maxLossStreak of 5: one CRITICAL warning, value 8
C10_Witness ==
    /\ IsNonEmptyAnalysis
    /\ thresholds = DefaultThresholds
    /\ lastOp.args.trades = TwoRuns(5, "tie", 8, "mixed")
    /\ SortedCopy(lastOp.args.trades) # lastOp.args.trades
    /\ \E i \in DOMAIN ret.warnings :
           ret.warnings[i] = [type |-> "high_loss_streak", level |-> "critical",
                              value |-> [n |-> 8, d |-> 1]]

(***************************************************************************)
(* analyzeTradeHistory on one drawn trade list made of at most MaxRounds   *)
(* rounds of two trades (a stake and the stake that follows it), ten       *)
(* minutes apart, given in time order or in an order that is not           *)
(***************************************************************************)
MaxRounds == 3

\* a round: <<stake, payout>> of its first and of its second trade
RoundKinds ==
    { << <<10, 8>>, <<20, 25>> >>,      \* loss, then the stake doubled
      << <<10, 8>>, <<18, 20>> >>,      \* loss, then the stake times 1.8
      << <<10, 8>>, <<17, 20>> >>,      \* loss, then a little less
      << <<10, 12>>, <<20, 25>> >>,     \* win, then the stake doubled
      << <<10, 8>>, <<20, 15>> >> }     \* loss, then the doubled stake lost

Rounds(rs, order) ==
    [i \in 1..(2 * Len(rs)) |->
        LET t == rs[(i + 1) \div 2][2 - (i % 2)]
        IN  Trade(SlotTime(order, i), t[1], t[2])]

MartingaleLists ==
    UNION { { Rounds(rs, order) : rs \in [1..n -> RoundKinds], order \in {"asc", "mixed"} } :
            n \in 0..MaxRounds }

MartingaleThresholds ==
    { [martingaleMultiplier |-> FromInt(2)], [martingaleMultiplier |-> Div(1, 2)] }

InitMartingale ==
    /\ InitEngine
    /\ InitSession
    /\ trades = <<>>
    /\ input \in { [trades |-> l, positions |-> <<>>, balance |-> 0] :
                       l \in MartingaleLists }
    /\ clock = Noon
    /\ tz = 0

NextMartingale ==
    \/ \E p \in MartingaleThresholds : lastOp.op = "constructor" /\ setThresholds(p)
    \/ analyzeTradeHistory(Args(input.trades, 1000, 1000))

SpecMartingale == InitMartingale /\ [][NextMartingale]_vars

(***************************************************************************)
(* Properties of the Martingale detector (SpecMartingale)                  *)
(***************************************************************************)
\* the trades of ts in ascending purchase_time, trades of equal time in the
\* order given: the k-th is the one that has k - 1 trades before it
TimeOrder(ts) ==
    [k \in 1..Len(ts) |->
        ts[CHOOSE i \in 1..Len(ts) :
               Cardinality({ j \in 1..Len(ts) :
                   \/ ts[j].purchase_time < ts[i].purchase_time
                   \/ ts[j].purchase_time = ts[i].purchase_time /\ j < i }) = k - 1]]

\* the adjacent pairs of the time order whose earlier trade is a loss and
\* whose later stake is >= the earlier stake times m (m = n/d, d > 0)
C11_Raises(ts, m) ==
    LET s == TimeOrder(ts)
    IN  { k \in 2..Len(s) :
            /\ s[k - 1].sell_price < s[k - 1].buy_price
            /\ s[k].buy_price * m.d >= s[k - 1].buy_price * m.n }

\* C11: the result holds exactly one CRITICAL MARTINGALE_PATTERN warning, with
\* the count as value, iff the number of adjacent pairs of the time-sorted
\* trades whose earlier trade is a loss and whose later stake is >= the
\* earlier stake times martingaleMultiplier is >= 3; the later trade need not
\* be a loss.
C11_MartingaleCount ==
    IsNonEmptyAnalysis =>
        LET count == Cardinality(C11_Raises(lastOp.args.trades, thresholds.martingaleMultiplier))
            hits == { i \in DOMAIN ret.warnings :
                          ret.warnings[i].type = "martingale_pattern" }
        IN  IF count >= 3
            THEN \E i \in hits :
                     /\ hits = {i}
                     /\ ret.warnings[i] = [type |-> "martingale_pattern",
                                           level |-> "critical",
                                           value |-> [n |-> count, d |-> 1]]
            ELSE hits = {}

\* the time-ordered stakes 10 (loss), 20, 10 (loss), 18, 10 (loss), 20 under
\* the default multiplier 1.8: count 3, one CRITICAL warning
C11_Witness ==
    /\ IsNonEmptyAnalysis
    /\ thresholds = DefaultThresholds
    /\ lastOp.args.trades =
           Rounds(<< << <<10, 8>>, <<20, 25>> >>, << <<10, 8>>, <<18, 20>> >>,
                     << <<10, 8>>, <<20, 25>> >> >>, "asc")
    /\ [i \in 1..6 |-> lastOp.args.trades[i].buy_price] = <<10, 20, 10, 18, 10, 20>>
    /\ \E i \in DOMAIN ret.warnings :
           ret.warnings[i] = [type |-> "martingale_pattern", level |-> "critical",
                              value |-> [n |-> 3, d |-> 1]]

(***************************************************************************)
(* analyzeTradeHistory on one trade and drawn balances: currentBalance a   *)
(* multiple of 50 up to 50 * MaxBalanceSteps, initialBalance 1000, 400, 0  *)
(* or not given                                                            *)
(***************************************************************************)
MaxBalanceSteps == 24

CurrentBalances == { 50 * k : k \in 0..MaxBalanceSteps }

InitialBalances == {1000, 400, 0}

BalanceArgs ==
    { Args(<< Trade(Noon, 10, 12) >>, c, i) : c \in CurrentBalances, i \in InitialBalances }
    \cup { ArgsNoInitial(<< Trade(Noon, 10, 12) >>, c) : c \in CurrentBalances }

BalanceThresholds ==
    { [balanceDropPercent |-> FromInt(50)],
      [balanceDropPercent |-> FromInt(0)],
      [balanceDropPercent |-> FromInt(-10)] }

InitBalance ==
    /\ InitEngine
    /\ InitSession
    /\ trades = <<>>
    /\ input \in BalanceArgs
    /\ clock = Noon
    /\ tz = 0

NextBalance ==
    \/ \E p \in BalanceThresholds : lastOp.op = "constructor" /\ setThresholds(p)
    \/ analyzeTradeHistory(input)

SpecBalance == InitBalance /\ [][NextBalance]_vars

(***************************************************************************)
(* Properties of the Balance Depletion detector (SpecBalance)              *)
(***************************************************************************)
C12_Hits == { i \in DOMAIN ret.warnings : ret.warnings[i].type = "balance_depletion" }

\* (initial - current) / initial * 100 >= limit, for initial # 0 and a finite
\* limit n/d, by integer cross-multiplication
C12_DropAtLeast(current, initial, limit) ==
    Sign(initial) * (initial - current) * 100 * limit.d >= limit.n * Abs(initial)

\* C12: with initialBalance zero or absent the result holds no
\* BALANCE_DEPLETION warning; otherwise it holds exactly one iff
\* dropPercent = (initialBalance - currentBalance) / initialBalance * 100 is
\* >= balanceDropPercent, with dropPercent as value and level CRITICAL when
\* dropPercent >= 50 and HIGH otherwise.
C12_BalanceDepletion ==
    IsNonEmptyAnalysis =>
        LET current == lastOp.args.currentBalance
            initial == lastOp.args.initialBalance
        IN  IF ~lastOp.args.hasInitial \/ initial = 0 THEN C12_Hits = {}
            ELSE IF C12_DropAtLeast(current, initial, thresholds.balanceDropPercent)
            THEN \E i \in C12_Hits :
                     /\ C12_Hits = {i}
                     /\ ret.warnings[i].value.d > 0
                     /\ ret.warnings[i].value.n * initial =
                            (initial - current) * 100 * ret.warnings[i].value.d
                     /\ ret.warnings[i].level =
                            IF C12_DropAtLeast(current, initial, [n |-> 50, d |-> 1])
                            THEN "critical" ELSE "high"
            ELSE C12_Hits = {}

\* initial 1000, current 750 under the default of 20: one HIGH warning with
\* value 25
C12_Witness ==
    /\ IsNonEmptyAnalysis
    /\ thresholds = DefaultThresholds
    /\ lastOp.args.hasInitial
    /\ lastOp.args.initialBalance = 1000 /\ lastOp.args.currentBalance = 750
    /\ \E i \in DOMAIN ret.warnings :
           ret.warnings[i] = [type |-> "balance_depletion", level |-> "high",
                              value |-> [n |-> 25, d |-> 1]]

\* C20 as stated: a negative dropPercent (currentBalance greater than a positive
\* initialBalance) never produces a BALANCE_DEPLETION warning, whatever
\* configuration setThresholds has left.
C20_GrowthNeverWarns ==
    ( /\ IsNonEmptyAnalysis
      /\ lastOp.args.hasInitial
      /\ lastOp.args.initialBalance > 0
      /\ lastOp.args.currentBalance > lastOp.args.initialBalance ) =>
        \A i \in DOMAIN ret.warnings : ret.warnings[i].type # "balance_depletion"

\* C20 (amended): when currentBalance is greater than a positive
\* initialBalance, the result holds a BALANCE_DEPLETION warning iff
\* balanceDropPercent is negative and dropPercent is >= it; so there is none
\* under any configuration whose balanceDropPercent is >= 0, and the one
\* there is under a negative balanceDropPercent is HIGH with the negative
\* dropPercent as value.
C20_GrowthWarnsOnlyBelowNegativeLimit ==
    ( /\ IsNonEmptyAnalysis
      /\ lastOp.args.hasInitial
      /\ lastOp.args.initialBalance > 0
      /\ lastOp.args.currentBalance > lastOp.args.initialBalance ) =>
        LET current == lastOp.args.currentBalance
            initial == lastOp.args.initialBalance
            limit == thresholds.balanceDropPercent
            hits == { i \in DOMAIN ret.warnings :
                          ret.warnings[i].type = "balance_depletion" }
        IN  /\ (limit.n >= 0 => hits = {})
            /\ (hits # {}) = (limit.n < 0 /\ (initial - current) * 100 * limit.d >= limit.n * initial)
            /\ \A i \in hits :
                   /\ ret.warnings[i].level = "high"
                   /\ ret.warnings[i].value.n < 0

\* current 1200 against initial 1000 after setThresholds({balanceDropPercent:
\* 0}): dropPercent -20, no BALANCE_DEPLETION warning
C20_Witness ==
    /\ IsNonEmptyAnalysis
    /\ thresholds.balanceDropPercent = [n |-> 0, d |-> 1]
    /\ lastOp.args.hasInitial
    /\ lastOp.args.initialBalance = 1000 /\ lastOp.args.currentBalance = 1200
    /\ \A i \in DOMAIN ret.warnings : ret.warnings[i].type # "balance_depletion"

(***************************************************************************)
(* analyzeTradeHistory on one drawn trade list spread over three local     *)
(* days: k trades on the day the clock starts in (the first at its local   *)
(* midnight, k <= MaxDayTrades), then some of the last seconds of the day   *)
(* before and some of the day after                                        *)
(***************************************************************************)
MaxDayTrades == 8

DayCounts == 0..MaxDayTrades

Zones == {0, 19800, -18000}

\* the instant at which the local day of Noon begins in the zone
LocalMidnight(zone) == Midnight - zone

DayTrades(before, k, after, zone) ==
    [i \in 1..k |-> Trade(LocalMidnight(zone) + 1600 * (i - 1), 10, 12)]
    \o [i \in 1..before |-> Trade(LocalMidnight(zone) - i, 10, 12)]
    \o [i \in 1..after |-> Trade(LocalMidnight(zone) + 86400 + 3600 * (i - 1), 10, 12)]

OvertradingThresholds ==
    { [maxDailyTrades |-> FromInt(5)], [maxDailyTrades |-> FromInt(7)] }

InitOvertrading ==
    /\ InitEngine
    /\ InitSession
    /\ trades = <<>>
    /\ tz \in Zones
    /\ input \in { [trades |-> DayTrades(before, k, after, tz),
                     positions |-> <<>>, balance |-> 0] :
                       before \in {0, 3}, k \in DayCounts, after \in {0, 6} }
    /\ clock = Noon

NextOvertrading ==
    \/ \E p \in OvertradingThresholds : lastOp.op = "constructor" /\ setThresholds(p)
    \/ analyzeTradeHistory(Args(input.trades, 1000, 1000))
    \/ AdvanceClock

SpecOvertrading == InitOvertrading /\ [][NextOvertrading]_vars

(***************************************************************************)
(* Properties of the Overtrading detector (SpecOvertrading)                *)
(***************************************************************************)
\* the instant at which the local day that holds the instant t begins
C13_DayStart(t, zone) == t - ((t + zone) % 86400)

\* C13: the result holds exactly one HIGH OVERTRADING warning, with the count
\* as value, iff the number of trades whose purchase time is on the local
\* day of the evaluation is strictly greater than maxDailyTrades.
C13_Overtrading ==
    IsNonEmptyAnalysis =>
        LET ts == lastOp.args.trades
            count == Cardinality({ i \in DOMAIN ts :
                         C13_DayStart(ts[i].purchase_time, tz) = C13_DayStart(lastOp.now, tz) })
            limit == thresholds.maxDailyTrades
            hits == { i \in DOMAIN ret.warnings : ret.warnings[i].type = "overtrading" }
        IN  IF count * limit.d > limit.n
            THEN \E i \in hits :
                     /\ hits = {i}
                     /\ ret.warnings[i] = [type |-> "overtrading", level |-> "high",
                                           value |-> [n |-> count, d |-> 1]]
            ELSE hits = {}

\* after setThresholds({maxDailyTrades: 5}), six trades on the day of the
\* evaluation among trades of the days around it: one HIGH warning, value 6
C13_Witness ==
    /\ IsNonEmptyAnalysis
    /\ thresholds.maxDailyTrades = [n |-> 5, d |-> 1]
    /\ lastOp.now = Noon
    /\ lastOp.args.trades = DayTrades(3, 6, 6, tz)
    /\ \E i \in DOMAIN ret.warnings :
           ret.warnings[i] = [type |-> "overtrading", level |-> "high",
                              value |-> [n |-> 6, d |-> 1]]

(***************************************************************************)
(* The engine on one drawn batch of trades: MaxBatch or MaxBatch - 4       *)
(* trades, evenly spaced, that start in the night or at noon of the day    *)
(* the clock is in or at noon of the day before, all won or all lost, with *)
(* a flat or a doubling stake, given earliest or latest first, with a      *)
(* balance that has or has not dropped                                     *)
(***************************************************************************)
MaxBatch == 10

Batch(n, start, gap, lost, doubling) ==
    [i \in 1..n |->
        LET stake == IF doubling THEN 2 ^ i ELSE 10
        IN  Trade(start + (i - 1) * gap, stake, IF lost THEN 0 ELSE stake + 2)]

BatchArgs ==
    { Args(IF latestFirst THEN Reverse(Batch(n, start, gap, lost, doubling))
                          ELSE Batch(n, start, gap, lost, doubling),
           current, 1000) :
          n \in {MaxBatch - 4, MaxBatch},
          start \in {Midnight + 3600, Noon, Noon - 86400},
          gap \in {1, 5, 600},
          lost \in BOOLEAN, doubling \in BOOLEAN, latestFirst \in BOOLEAN,
          current \in {1000, 400} }

DetectorThresholds ==
    { [maxDailyTrades |-> FromInt(5)], [minTimeBetweenTrades |-> FromInt(1)] }

InitDetectors ==
    /\ InitEngine
    /\ InitSession
    /\ trades = <<>>
    /\ input \in BatchArgs
    /\ clock = Noon
    /\ tz = 0

NextDetectors ==
    \/ \E p \in DetectorThresholds : lastOp.op = "constructor" /\ setThresholds(p)
    \/ analyzeTradeHistory(input)
    \/ analyzeOpenPositions(<< Position(1, 300) >>, 1000)

SpecDetectors == InitDetectors /\ [][NextDetectors]_vars

(***************************************************************************)
(* Properties of a whole run of analyzeTradeHistory (SpecDetectors)        *)
(***************************************************************************)
\* C14: every returned warnings list has at most seven entries, no two
\* entries share a type, and no entry has type LARGE_POSITION.
C14_AtMostOnePerDetector ==
    IsAnalysis =>
        /\ Len(ret.warnings) <= 7
        /\ \A i, j \in DOMAIN ret.warnings :
               ret.warnings[i].type = ret.warnings[j].type => i = j
        /\ \A i \in DOMAIN ret.warnings : ret.warnings[i].type # "large_position"

\* a run in which all seven detectors fire, entered with the seven warnings
\* of the run before still in this.warnings
C14_Witness ==
    /\ IsNonEmptyAnalysis
    /\ lastOp.carried = 7
    /\ Len(ret.warnings) = 7
    /\ Len(warnings) = 7

C15_Order ==
    << "overtrading", "high_loss_streak", "rapid_trading", "martingale_pattern",
       "balance_depletion", "bot_activity", "unusual_hours" >>

C15_Place(type) == CHOOSE k \in DOMAIN C15_Order : C15_Order[k] = type

\* C15: in every result of analyzeTradeHistory the warnings appear in the
\* order OVERTRADING, HIGH_LOSS_STREAK, RAPID_TRADING, MARTINGALE_PATTERN,
\* BALANCE_DEPLETION, BOT_ACTIVITY, UNUSUAL_HOURS: a warning of a later type
\* never precedes a warning of an earlier type.
C15_DetectorOrder ==
    IsAnalysis =>
        /\ \A i \in DOMAIN ret.warnings :
               \E k \in DOMAIN C15_Order : C15_Order[k] = ret.warnings[i].type
        /\ \A i, j \in DOMAIN ret.warnings :
               i < j => C15_Place(ret.warnings[i].type) <= C15_Place(ret.warnings[j].type)

\* a run that returns a warning of each of the seven types, in that order
C15_Witness ==
    /\ IsNonEmptyAnalysis
    /\ [i \in DOMAIN ret.warnings |-> ret.warnings[i].type] = C15_Order

\* C16: after analyzeTradeHistory the caller's trade list holds the same
\* trades in the same order as before the call.
C16_CallerListUnchanged ==
    (IsAnalysis /\ lastOp.args.given) => trades = lastOp.args.trades

\* a list given latest first, on which the three sorting detectors have each
\* produced their warning, still latest first after the call
C16_Witness ==
    /\ IsNonEmptyAnalysis
    /\ \A i \in 1..(Len(lastOp.args.trades) - 1) :
           lastOp.args.trades[i].purchase_time > lastOp.args.trades[i + 1].purchase_time
    /\ \A type \in {"rapid_trading", "martingale_pattern", "bot_activity"} :
           \E i \in DOMAIN ret.warnings : ret.warnings[i].type = type
    /\ trades = lastOp.args.trades
    /\ trades # SortedCopy(trades)

(***************************************************************************)
(* Properties of the configuration's lifecycle (Spec)                      *)
(***************************************************************************)
C17_Defaults ==
    [maxDailyTrades |-> [n |-> 50, d |-> 1],
     maxLossStreak |-> [n |-> 5, d |-> 1],
     maxPositionPercent |-> [n |-> 10, d |-> 1],
     minTimeBetweenTrades |-> [n |-> 10, d |-> 1],
     martingaleMultiplier |-> [n |-> 9, d |-> 5],
     balanceDropPercent |-> [n |-> 20, d |-> 1],
     botTradeInterval |-> [n |-> 2, d |-> 1]]

\* C17: the thresholds are the defaults 50, 5, 10, 10, 1.8, 20, 2 after
\* construction, and every step that changes them is a setThresholds call:
\* analyzeTradeHistory and analyzeOpenPositions leave every threshold as it
\* was.
C17_ThresholdsLifecycle ==
    /\ thresholds = C17_Defaults
    /\ [][ /\ (thresholds' # thresholds => lastOp'.op = "setThresholds")
           /\ (lastOp'.op \in {"analyzeTradeHistory", "analyzeOpenPositions"} =>
                   thresholds' = thresholds)
         ]_vars

\* a run made after setThresholds({maxDailyTrades: 5}) whose Overtrading
\* detector has read the 5 while every other threshold is still the default
C17_Witness ==
    /\ IsNonEmptyAnalysis
    /\ thresholds = [C17_Defaults EXCEPT !.maxDailyTrades = [n |-> 5, d |-> 1]]
    /\ \E i \in DOMAIN ret.warnings :
           /\ ret.warnings[i].type = "overtrading"
           /\ ret.warnings[i].value.n \in 6..50

(***************************************************************************)
(* analyzeTradeHistory on one drawn list of n <= MaxBotTrades trades ten   *)
(* minutes apart except for one run of short gaps: the gaps numbered       *)
(* from .. from + len - 1 (gap g lies between the g-th and the g+1-st      *)
(* trade in time) are `short` seconds; given earliest or latest first      *)
(***************************************************************************)
MaxBotTrades == 26

GapTrades(n, from, len, short) ==
    [i \in 1..n |->
        LET shortBefore == Cardinality({ g \in 1..(i - 1) : g >= from /\ g < from + len })
        IN  Trade(Noon + 600 * (i - 1) - (600 - short) * shortBefore, 10, 12)]

BotLists ==
    UNION { { IF latestFirst THEN Reverse(GapTrades(n, from, len, short))
                             ELSE GapTrades(n, from, len, short) :
                  from \in 1..n, len \in {4, 5, 6}, short \in {2, 3},
                  latestFirst \in BOOLEAN } :
            n \in {1, 6} \cup ((MaxBotTrades - 2)..MaxBotTrades) }

BotThresholds ==
    { [botTradeInterval |-> FromInt(3)], [botTradeInterval |-> FromInt(1)] }

InitBotActivity ==
    /\ InitEngine
    /\ InitSession
    /\ trades = <<>>
    /\ input \in { [trades |-> l, positions |-> <<>>, balance |-> 0] : l \in BotLists }
    /\ clock = Noon
    /\ tz = 0

NextBotActivity ==
    \/ \E p \in BotThresholds : lastOp.op = "constructor" /\ setThresholds(p)
    \/ analyzeTradeHistory(Args(input.trades, 1000, 1000))

SpecBotActivity == InitBotActivity /\ [][NextBotActivity]_vars

(***************************************************************************)
(* Properties of the Bot Activity detector (SpecBotActivity)               *)
(***************************************************************************)
\* the gaps <= limit (= n/d) among the earliest min(20, n) trades
C18_ShortGaps(ts, limit) ==
    LET s == TimeOrder(ts)
        last == IF Len(s) < 20 THEN Len(s) ELSE 20
    IN  { k \in 2..last :
            (s[k].purchase_time - s[k - 1].purchase_time) * limit.d <= limit.n }

\* C18: the result holds exactly one MEDIUM BOT_ACTIVITY warning, with
\* isBotLikely true and the count as value, iff the number of gaps
\* <= botTradeInterval between adjacent trades among the earliest min(20, n)
\* in time is >= 5; gaps among later trades are not counted.
C18_BotActivity ==
    IsNonEmptyAnalysis =>
        LET count == Cardinality(C18_ShortGaps(lastOp.args.trades, thresholds.botTradeInterval))
            hits == { i \in DOMAIN ret.warnings : ret.warnings[i].type = "bot_activity" }
        IN  IF count >= 5
            THEN \E i \in hits :
                     /\ hits = {i}
                     /\ ret.warnings[i] = [type |-> "bot_activity", level |-> "medium",
                                           value |-> [n |-> count, d |-> 1],
                                           isBotLikely |-> TRUE]
            ELSE hits = {}

\* MaxBotTrades trades given latest first, whose six gaps of 2 seconds all
\* lie after the 20th earliest trade (they are among the first given): no
\* BOT_ACTIVITY warning under the default interval of 2
C18_Witness ==
    /\ IsNonEmptyAnalysis
    /\ thresholds = DefaultThresholds
    /\ lastOp.args.trades = Reverse(GapTrades(MaxBotTrades, 20, 6, 2))
    /\ Cardinality({ i \in 1..6 :
           lastOp.args.trades[i].purchase_time - lastOp.args.trades[i + 1].purchase_time = 2 }) >= 5
    /\ \A i \in DOMAIN ret.warnings : ret.warnings[i].type # "bot_activity"

(***************************************************************************)
(* analyzeTradeHistory on one drawn list whose first k <= MaxRapidGaps     *)
(* gaps in time are `short` seconds (0: trades of the same second) and    *)
(* whose other gaps are ten minutes, given in one of three orders          *)
(***************************************************************************)
MaxRapidGaps == 7

\* the trades at the odd places, then those at the even places
Riffle(s) ==
    LET odd == (Len(s) + 1) \div 2
    IN  [i \in 1..Len(s) |-> IF i <= odd THEN s[2 * i - 1] ELSE s[2 * (i - odd)]]

Ordered(s, order) ==
    IF order = "latestFirst" THEN Reverse(s)
    ELSE IF order = "riffle" THEN Riffle(s)
    ELSE s

RapidLists ==
    { Ordered(GapTrades(k + 1 + extra, 1, k, short), order) :
          k \in 0..MaxRapidGaps, extra \in {0, 2}, short \in {0, 9, 10},
          order \in {"asc", "latestFirst", "riffle"} }

RapidThresholds ==
    { [minTimeBetweenTrades |-> FromInt(9)], [minTimeBetweenTrades |-> FromInt(11)] }

InitRapidTrading ==
    /\ InitEngine
    /\ InitSession
    /\ trades = <<>>
    /\ input \in { [trades |-> l, positions |-> <<>>, balance |-> 0] : l \in RapidLists }
    /\ clock = Noon
    /\ tz = 0

NextRapidTrading ==
    \/ \E p \in RapidThresholds : lastOp.op = "constructor" /\ setThresholds(p)
    \/ analyzeTradeHistory(Args(input.trades, 1000, 1000))

SpecRapidTrading == InitRapidTrading /\ [][NextRapidTrading]_vars

(***************************************************************************)
(* Properties of the Rapid Trading detector (SpecRapidTrading)             *)
(***************************************************************************)
\* the adjacent pairs of the time order whose gap is < limit (= n/d)
C19_RapidGaps(ts, limit) ==
    LET s == TimeOrder(ts)
    IN  { k \in 2..Len(s) :
            (s[k].purchase_time - s[k - 1].purchase_time) * limit.d < limit.n }

C19_Hits(ws) == { ws[i] : i \in { j \in DOMAIN ws : ws[j].type = "rapid_trading" } }

\* C19: the result holds exactly one MEDIUM RAPID_TRADING warning, with the
\* count as value, iff the number of adjacent pairs of the time-sorted
\* trades whose gap is strictly less than minTimeBetweenTrades is strictly
\* greater than 5; and the same trades given in another order give the same
\* RAPID_TRADING outcome.
C19_RapidTrading ==
    IsNonEmptyAnalysis =>
        LET count == Cardinality(C19_RapidGaps(lastOp.args.trades, thresholds.minTimeBetweenTrades))
            hits == { i \in DOMAIN ret.warnings : ret.warnings[i].type = "rapid_trading" }
        IN  /\ IF count > 5
               THEN \E i \in hits :
                        /\ hits = {i}
                        /\ ret.warnings[i] = [type |-> "rapid_trading", level |-> "medium",
                                              value |-> [n |-> count, d |-> 1]]
               ELSE hits = {}
            /\ \A order \in {"latestFirst", "riffle"} :
                   C19_Hits(analyzeTradeHistoryCall(<<>>, thresholds,
                                [lastOp.args EXCEPT !.trades = Ordered(@, order)],
                                lastOp.now, tz).ret.warnings)
                   = C19_Hits(ret.warnings)

\* seven trades 9 seconds apart and two more much later, given in an order
\* that is not the time order, under the default of 10: count 6, one MEDIUM
\* warning
C19_Witness ==
    /\ IsNonEmptyAnalysis
    /\ thresholds = DefaultThresholds
    /\ lastOp.args.trades = Riffle(GapTrades(9, 1, 6, 9))
    /\ lastOp.args.trades # SortedCopy(lastOp.args.trades)
    /\ \E i \in DOMAIN ret.warnings :
           ret.warnings[i] = [type |-> "rapid_trading", level |-> "medium",
                              value |-> [n |-> 6, d |-> 1]]

(***************************************************************************)
(* analyzeTradeHistory on one drawn list of k <= MaxNightTrades trades of  *)
(* the local hours 0..5 (the first at 00:00:00, the second at 05:59:59,    *)
(* alternately of the day of the clock and of the day before), then some   *)
(* of 06:00 and some of 23:59:59, in a drawn time zone                     *)
(***************************************************************************)
MaxNightTrades == 12

\* the second of the local day of the i-th night trade
NightSecond(i) ==
    IF i = 1 THEN 0
    ELSE IF i = 2 THEN 6 * 3600 - 1
    ELSE 3600 * (i % 6) + 61 * i

HourTrades(k, atSix, beforeMidnight, zone) ==
    [i \in 1..k |-> Trade(LocalMidnight(zone) - 86400 * (i % 2) + NightSecond(i), 10, 12)]
    \o [i \in 1..atSix |-> Trade(LocalMidnight(zone) + 6 * 3600 + 900 * (i - 1), 10, 12)]
    \o [i \in 1..beforeMidnight |-> Trade(LocalMidnight(zone) - 1 - 900 * (i - 1), 10, 12)]

\* one override per threshold
HourThresholds == { [k \in {key} |-> OverrideValues[key]] : key \in ThresholdKeys }

InitUnusualHours ==
    /\ InitEngine
    /\ InitSession
    /\ trades = <<>>
    /\ tz \in Zones
    /\ input \in { [trades |-> HourTrades(k, atSix, beforeMidnight, tz),
                     positions |-> <<>>, balance |-> 0] :
                       k \in 0..MaxNightTrades, atSix \in {0, 3}, beforeMidnight \in {0, 2} }
    /\ clock = Noon

NextUnusualHours ==
    \/ \E p \in HourThresholds : lastOp.op = "constructor" /\ setThresholds(p)
    \/ analyzeTradeHistory(Args(input.trades, 1000, 1000))

SpecUnusualHours == InitUnusualHours /\ [][NextUnusualHours]_vars

(***************************************************************************)
(* Properties of the Unusual Hours detector (SpecUnusualHours)             *)
(***************************************************************************)
C21_Hits(ws) == { ws[i] : i \in { j \in DOMAIN ws : ws[j].type = "unusual_hours" } }

\* C21: the result holds exactly one LOW UNUSUAL_HOURS warning, with the
\* count as value, iff at least 10 trades were bought in the first six hours
\* (00:00:00 .. 05:59:59) of a local day; and it is the outcome the default
\* thresholds give, whatever the thresholds are.
C21_UnusualHours ==
    IsNonEmptyAnalysis =>
        LET ts == lastOp.args.trades
            count == Cardinality({ i \in DOMAIN ts :
                         (ts[i].purchase_time + tz) % 86400 < 6 * 3600 })
            hits == { i \in DOMAIN ret.warnings : ret.warnings[i].type = "unusual_hours" }
        IN  /\ IF count >= 10
               THEN \E i \in hits :
                        /\ hits = {i}
                        /\ ret.warnings[i] = [type |-> "unusual_hours", level |-> "low",
                                              value |-> [n |-> count, d |-> 1]]
               ELSE hits = {}
            /\ C21_Hits(ret.warnings) =
                   C21_Hits(analyzeTradeHistoryCall(<<>>, C17_Defaults, lastOp.args,
                                                    lastOp.now, tz).ret.warnings)

\* ten trades of the hours 0..5 and three of 06:00, away from UTC and after
\* an override: one LOW warning with value 10
C21_Witness ==
    /\ IsNonEmptyAnalysis
    /\ tz # 0
    /\ thresholds # DefaultThresholds
    /\ lastOp.args.trades = HourTrades(10, 3, 2, tz)
    /\ \E i \in DOMAIN ret.warnings :
           ret.warnings[i] = [type |-> "unusual_hours", level |-> "low",
                              value |-> [n |-> 10, d |-> 1]]

(***************************************************************************)
(* The engine with a caller that keeps one result of analyzeTradeHistory   *)
(* and goes on calling                                                     *)
(***************************************************************************)
HeldArgs ==
    { Args(<<>>, 400, 1000),
      Args(<< Trade(Noon, 10, 12) >>, 1000, 1000),
      Args(Series(8, Noon, 1, 10, 8), 400, 1000),
      Args(NightTrades, 1000, 1000) }

NextHeld ==
    \/ \E p \in ThresholdUpdates : setThresholds(p)
    \/ \E a \in HeldArgs : analyzeTradeHistory(a)
    \/ analyzeOpenPositions(<< Position(1, 300) >>, 1000)
    \/ Hold

SpecHeld == Init /\ [][NextHeld]_vars

\* C22: a result returned by analyzeTradeHistory and kept by the caller shows
\* the warnings, riskScore and riskLevel it was returned with, whatever
\* analyzeTradeHistory, analyzeOpenPositions and setThresholds calls follow.
C22_ResultNeverChanges == held.has => held.result = held.original

\* a kept result with warnings, after a later run on the same engine that
\* returned other warnings and left other warnings in this.warnings
C22_Witness ==
    /\ held.has
    /\ held.original.warnings # <<>>
    /\ lastOp.op = "analyzeTradeHistory"
    /\ lastOp.carried = Len(held.original.warnings)
    /\ ret.warnings # held.original.warnings
    /\ warnings # held.original.warnings
    /\ held.result.warnings = held.original.warnings

(***************************************************************************)
(* useDerivConnection (src/src/hooks/useDerivConnection.js).  Each async   *)
(* callback is one action per stretch between awaits; the promises of the  *)
(* derivAPI module settle when and how the environment chooses.  At most   *)
(* MaxPending calls of a kind await at a time.                             *)
(***************************************************************************)
MaxPending == 2

outsideHook == <<thresholds, warnings, trades, lastOp, ret, input, clock, tz,
                 held, service>>

\* connect up to `await derivAPI.connect(appId)`
hook_connect ==
    /\ hook.connecting < MaxPending
    /\ hook' = [hook EXCEPT !.isLoading = TRUE, !.error = "null",
                            !.connecting = @ + 1]
    /\ UNCHANGED outsideHook

\* derivAPI.connect resolved: setIsConnected(true), finally
hook_connect_resolved ==
    /\ hook.connecting > 0
    /\ hook' = [hook EXCEPT !.isConnected = TRUE, !.isLoading = FALSE,
                            !.connecting = @ - 1]
    /\ UNCHANGED outsideHook

\* derivAPI.connect rejected: catch, finally
hook_connect_rejected ==
    /\ hook.connecting > 0
    /\ hook' = [hook EXCEPT !.error = "Failed to connect", !.isConnected = FALSE,
                            !.isLoading = FALSE, !.connecting = @ - 1]
    /\ UNCHANGED outsideHook

\* authorize with isConnected false: the early return
hook_authorize_refused ==
    /\ ~hook.isConnected
    /\ hook' = [hook EXCEPT !.error = "Not connected. Please connect first."]
    /\ UNCHANGED outsideHook

\* authorize up to `await derivAPI.authorize(token)`
hook_authorize ==
    /\ hook.isConnected
    /\ hook.authorizing < MaxPending
    /\ hook' = [hook EXCEPT !.isLoading = TRUE, !.error = "null",
                            !.authorizing = @ + 1]
    /\ UNCHANGED outsideHook

\* derivAPI.authorize resolved: setIsAuthorized(true), setAccountInfo, up to
\* `await derivAPI.getBalance()`
hook_authorize_resolved ==
    /\ hook.authorizing > 0
    /\ hook.fetching < MaxPending
    /\ hook' = [hook EXCEPT !.isAuthorized = TRUE, !.accountInfo = "authorize",
                            !.authorizing = @ - 1, !.fetching = @ + 1]
    /\ UNCHANGED outsideHook

\* derivAPI.authorize rejected: catch, finally
hook_authorize_rejected ==
    /\ hook.authorizing > 0
    /\ hook' = [hook EXCEPT !.error = "Authorization failed", !.isAuthorized = FALSE,
                            !.isLoading = FALSE, !.authorizing = @ - 1]
    /\ UNCHANGED outsideHook

\* derivAPI.getBalance resolved: setBalance, finally
hook_getBalance_resolved ==
    /\ hook.fetching > 0
    /\ hook' = [hook EXCEPT !.balance = "balance", !.isLoading = FALSE,
                            !.fetching = @ - 1]
    /\ UNCHANGED outsideHook

\* derivAPI.getBalance rejected: catch, finally
hook_getBalance_rejected ==
    /\ hook.fetching > 0
    /\ hook' = [hook EXCEPT !.error = "Authorization failed", !.isAuthorized = FALSE,
                            !.isLoading = FALSE, !.fetching = @ - 1]
    /\ UNCHANGED outsideHook

hook_disconnect ==
    /\ hook' = [hook EXCEPT !.isConnected = FALSE, !.isAuthorized = FALSE,
                            !.accountInfo = "null", !.balance = "null"]
    /\ UNCHANGED outsideHook

NextHook ==
    \/ hook_connect
    \/ hook_connect_resolved
    \/ hook_connect_rejected
    \/ hook_authorize_refused
    \/ hook_authorize
    \/ hook_authorize_resolved
    \/ hook_authorize_rejected
    \/ hook_getBalance_resolved
    \/ hook_getBalance_rejected
    \/ hook_disconnect

SpecHook == Init /\ [][NextHook]_vars

\* C23: in every reachable state of the hook, isAuthorized implies
\* isConnected.
C23_AuthorizedImpliesConnected == hook.isAuthorized => hook.isConnected

(***************************************************************************)
(* DerivAPIService (src/unnamed/part_001).  Each async method is one       *)
(* action per stretch between awaits; the promises of the DerivAPI object  *)
(* settle when and how the environment chooses.                            *)
(***************************************************************************)
MaxApis == 2
MaxSubscribes == 2
MaxMillis == 1

outsideService == <<thresholds, warnings, trades, lastOp, ret, input, clock, tz,
                    held, hook>>

isConnected(sv) == sv.api # 0

Returned(sv, message) ==
    [sv EXCEPT !.connectResult = message, !.previous = sv.connectResult,
               !.disconnected = FALSE]

\* connect with this.api set
service_connect_already ==
    /\ service.api # 0
    /\ service' = Returned(service, "Already connected")
    /\ UNCHANGED outsideService

\* connect up to `await this.api.ping()`
service_connect ==
    /\ service.api = 0
    /\ service.apis < MaxApis
    /\ service' = [service EXCEPT !.api = service.apis + 1, !.apis = @ + 1,
                                  !.pinging = @ \cup {service.apis + 1}]
    /\ UNCHANGED outsideService

\* the ping resolved: return success
service_ping_resolved(a) ==
    /\ a \in service.pinging
    /\ service' = [Returned(service, "Connected to Deriv API")
                      EXCEPT !.pinging = @ \ {a}]
    /\ UNCHANGED outsideService

\* the ping rejected: catch, return success false
service_ping_rejected(a) ==
    /\ a \in service.pinging
    /\ service' = [Returned(service, "Connection failed")
                      EXCEPT !.pinging = @ \ {a}]
    /\ UNCHANGED outsideService

\* authorize with this.api null: throw, catch, return success false
service_authorize_refused ==
    /\ service.api = 0
    /\ service' = [service EXCEPT !.authorizeResult = "Authorization failed"]
    /\ UNCHANGED outsideService

\* authorize up to `await this.api.authorize(...)`
service_authorize ==
    /\ service.api # 0
    /\ service.authorizing < MaxPending
    /\ service' = [service EXCEPT !.authorizing = @ + 1]
    /\ UNCHANGED outsideService

\* the response without error: this.accountInfo is stored
service_authorize_resolved ==
    /\ service.authorizing > 0
    /\ service' = [service EXCEPT !.authorizing = @ - 1, !.accountInfo = "account",
                                  !.authorizeResult = "success"]
    /\ UNCHANGED outsideService

\* a response with error, or a rejection: catch, return success false
service_authorize_failed ==
    /\ service.authorizing > 0
    /\ service' = [service EXCEPT !.authorizing = @ - 1,
                                  !.authorizeResult = "Authorization failed"]
    /\ UNCHANGED outsideService

\* a subscribeToBalance call: its subscription id, how far handleBalanceUpdate
\* is, whether its subscription object is live (created, unsubscribe not
\* called on it) and whether the returned function or disconnect ran since
Call(id, state) == [id |-> id, state |-> state, live |-> FALSE, released |-> FALSE]

\* subscribeToBalance with this.api null: the returned function does nothing
service_subscribeToBalance_refused ==
    /\ service.api = 0
    /\ Len(service.calls) < MaxSubscribes
    /\ service' = [service EXCEPT !.calls = Append(@, Call(service.now, "notConnected"))]
    /\ UNCHANGED outsideService

\* subscribeToBalance up to `await this.api.subscribe(...)`
service_subscribeToBalance ==
    /\ service.api # 0
    /\ Len(service.calls) < MaxSubscribes
    /\ service' = [service EXCEPT !.calls = Append(@, Call(service.now, "awaiting"))]
    /\ UNCHANGED outsideService

MapSet(m, id, c) == [i \in DOMAIN m \cup {id} |-> IF i = id THEN c ELSE m[i]]

MapDelete(m, id) == [i \in DOMAIN m \ {id} |-> m[i]]

\* handleBalanceUpdate after the await: onUpdate, this.subscriptions.set
service_subscribe_resolved(c) ==
    /\ c \in DOMAIN service.calls
    /\ service.calls[c].state = "awaiting"
    /\ service' = [service EXCEPT
          !.calls[c].state = "subscribed", !.calls[c].live = TRUE,
          !.subscriptions = MapSet(@, service.calls[c].id, c)]
    /\ UNCHANGED outsideService

\* handleBalanceUpdate: the subscribe rejected, catch
service_subscribe_rejected(c) ==
    /\ c \in DOMAIN service.calls
    /\ service.calls[c].state = "awaiting"
    /\ service' = [service EXCEPT !.calls[c].state = "failed"]
    /\ UNCHANGED outsideService

\* the function subscribeToBalance returned to call c
service_unsubscribe(c) ==
    /\ c \in DOMAIN service.calls
    /\ LET id == service.calls[c].id
           found == service.calls[c].state # "notConnected"
                    /\ id \in DOMAIN service.subscriptions
       IN  service' = [service EXCEPT
             !.calls = [k \in DOMAIN @ |->
                 [@[k] EXCEPT
                    !.live = IF found /\ service.subscriptions[id] = k THEN FALSE ELSE @,
                    !.released = IF k = c THEN TRUE ELSE @]],
             !.subscriptions = IF found THEN MapDelete(@, id) ELSE @]
    /\ UNCHANGED outsideService

service_disconnect ==
    /\ service' = [service EXCEPT
          !.calls = [k \in DOMAIN @ |->
              [@[k] EXCEPT
                 !.live = IF \E i \in DOMAIN service.subscriptions :
                                service.subscriptions[i] = k
                          THEN FALSE ELSE @,
                 !.released = TRUE]],
          !.subscriptions = NoSubscriptions,
          !.api = 0, !.accountInfo = "null", !.disconnected = TRUE]
    /\ UNCHANGED outsideService

\* Date.now() moves on
service_tick ==
    /\ service.now < MaxMillis
    /\ service' = [service EXCEPT !.now = @ + 1]
    /\ UNCHANGED outsideService

NextService ==
    \/ service_connect_already
    \/ service_connect
    \/ \E a \in 1..MaxApis : service_ping_resolved(a)
    \/ \E a \in 1..MaxApis : service_ping_rejected(a)
    \/ service_authorize_refused
    \/ service_authorize
    \/ service_authorize_resolved
    \/ service_authorize_failed
    \/ service_subscribeToBalance_refused
    \/ service_subscribeToBalance
    \/ \E c \in 1..MaxSubscribes : service_subscribe_resolved(c)
    \/ \E c \in 1..MaxSubscribes : service_subscribe_rejected(c)
    \/ \E c \in 1..MaxSubscribes : service_unsubscribe(c)
    \/ service_disconnect
    \/ service_tick

SpecService == Init /\ [][NextService]_vars

\* C24: when no connect call is in flight, isConnected() is true only if the
\* connect call that returned last succeeded and no disconnect followed it;
\* and connect does not answer 'Already connected' when the connect call
\* before it returned success false.
C24_ConnectedOnlyAfterSuccess ==
    /\ (isConnected(service) /\ service.pinging = {}) =>
           /\ service.connectResult \in {"Connected to Deriv API", "Already connected"}
           /\ ~service.disconnected
    /\ service.connectResult = "Already connected" =>
           service.previous # "Connection failed"

\* C25: once the function returned by a subscribeToBalance call, or
\* disconnect, has run after the call, the subscriptions map holds no entry
\* for the call's subscription and the subscription is not live.
C25_NothingRegisteredAfterRelease ==
    \A c \in DOMAIN service.calls :
        service.calls[c].released =>
            /\ ~service.calls[c].live
            /\ ~\E i \in DOMAIN service.subscriptions : service.subscriptions[i] = c

====
